---- MODULE Spec2Model ----
(***************************************************************************)
(* A model of the run_later daemon (src/run_later_server.py): the Task     *)
(* record, the TaskServer store (active and completed dictionaries and     *)
(* their two JSON snapshots), the scheduler thread, the per-task executor  *)
(* threads, the request handlers run by the accept loop, and the shutdown  *)
(* path.                                                                   *)
(*                                                                         *)
(* Time is the system clock in milliseconds, the resolution of a task id   *)
(* (str(int(time.time() * 1000))); datetime.now() is the same clock.  The  *)
(* clock advances a second at a time and any number of steps may happen at *)
(* one reading: steps with equal readings are steps within one             *)
(* millisecond.  Python dictionaries                                       *)
(* keep insertion order, so a dictionary is a sequence of values with      *)
(* pairwise different keys; the key of a Task is always its task_id.       *)
(***************************************************************************)
EXTENDS Integers, Sequences, FiniteSets, TLC

\* ------------------------------------------------------------------ bounds
\* whole seconds the clock may advance
MaxSeconds == 1
\* well-formed schedule requests over a whole behaviour
MaxSchedules == 2
\* signals delivered over a whole behaviour; a process is started again only
\* after it has exited, so this bounds the restarts too
MaxSignals == 1
\* entries a persisted history file holds beyond the history cap
Overfill == 2
\* milliseconds a new process needs before it loads its files, at least
StartupMs == 1

\* tasks a previous process left in tasks.json, where a model starts with some
MaxPending == 2
\* failures of the system (no thread left, a file that cannot be written) the
\* daemon meets
MaxFailures == 1
\* calls of send_message_to_server the client makes
MaxCalls == 3

\* ------------------------------------------------------- program constants
\* time.time() * 1000 and timedelta(seconds=...): milliseconds per second
MsPerSecond == 1000
\* time.sleep(1) at the end of a scheduler iteration, in seconds
TickSeconds == 1
\* the cap on the completed dictionary
MaxCompleted == 100
\* message.get('limit', 10)
DefaultLimit == 10

\* --------------------------------------------------------------- values
\* Python's None, and a present optional value
None == <<>>
Some(v) == <<v>>
Val(o) == o[1]

\* str(n) of an integer: a string that determines n
Str(n) == <<"str", n>>

\* datetime.isoformat() and datetime.fromisoformat() on naive datetimes
isoformat(t) == <<"iso", t>>
fromisoformat(s) == s[2]

\* a field that holds a JSON string where the handler expects a number
Text(s) == <<s, "string">>
IsText(o) == Len(o) = 2

Commands == {"a", "b"}
\* delay_seconds values a schedule request carries
Delays == {0, 1}
\* return codes of a finished command
ExitCodes == {0, 1}

\* ----------------------------------------------------------------- Task
\* Task.__init__; t is the reading of time.time() in milliseconds
TaskInit(command, target_time, task_id, completed, exit_code, completion_time, t) ==
    [command |-> command,
     target_time |-> target_time,
     task_id |-> IF task_id = None THEN Str(t) ELSE task_id,
     completed |-> completed,
     exit_code |-> exit_code,
     completion_time |-> completion_time]

\* a to_dict that tests the exit code for truth: it leaves out an exit code 0
to_dictNonzero(task) ==
    LET data == [command |-> task.command,
                 target_time |-> isoformat(task.target_time),
                 task_id |-> task.task_id,
                 completed |-> task.completed]
        d1 == IF task.exit_code # None /\ task.exit_code # Some(0)
                THEN ("exit_code" :> Val(task.exit_code)) @@ data
                ELSE data
    IN  IF task.completion_time # None
          THEN ("completion_time" :> isoformat(Val(task.completion_time))) @@ d1
          ELSE d1

\* Task.to_dict
to_dict(task) ==
    LET data == [command |-> task.command,
                 target_time |-> isoformat(task.target_time),
                 task_id |-> task.task_id,
                 completed |-> task.completed]
        d1 == IF task.exit_code # None
                THEN ("exit_code" :> Val(task.exit_code)) @@ data
                ELSE data
    IN  IF task.completion_time # None
          THEN ("completion_time" :> isoformat(Val(task.completion_time))) @@ d1
          ELSE d1

\* a from_dict that does not read 'completed'
from_dictUncompleted(data) ==
    LET task == TaskInit(data.command, fromisoformat(data.target_time), data.task_id,
                         FALSE, None, None, 0)
        t1 == IF "exit_code" \in DOMAIN data
                THEN [task EXCEPT !.exit_code = Some(data.exit_code)]
                ELSE task
    IN  IF "completion_time" \in DOMAIN data
          THEN [t1 EXCEPT !.completion_time = Some(fromisoformat(data.completion_time))]
          ELSE t1

\* Task.from_dict
from_dict(data) ==
    LET task == TaskInit(data.command, fromisoformat(data.target_time), data.task_id,
                         IF "completed" \in DOMAIN data THEN data.completed ELSE FALSE,
                         None, None, 0)
        t1 == IF "exit_code" \in DOMAIN data
                THEN [task EXCEPT !.exit_code = Some(data.exit_code)]
                ELSE task
    IN  IF "completion_time" \in DOMAIN data
          THEN [t1 EXCEPT !.completion_time = Some(fromisoformat(data.completion_time))]
          ELSE t1

\* ----------------------------------------------------------- dictionaries
Keys(d) == {d[i].task_id : i \in DOMAIN d}

\* d[task.task_id] = task
DictSet(d, task) ==
    IF task.task_id \in Keys(d)
      THEN [i \in DOMAIN d |-> IF d[i].task_id = task.task_id THEN task ELSE d[i]]
      ELSE Append(d, task)

\* del d[task_id]
DictDel(d, task_id) == SelectSeq(d, LAMBDA x : x.task_id # task_id)

\* d[task_id], for a key of d
DictGet(d, task_id) == d[CHOOSE i \in DOMAIN d : d[i].task_id = task_id]

\* a mapping built from the latest insertion to the earliest
SerializeReversed(d) == [i \in DOMAIN d |-> to_dict(d[Len(d) + 1 - i])]

\* {task_id: task.to_dict() for task_id, task in d.items()}
Serialize(d) == [i \in DOMAIN d |-> to_dict(d[i])]

\* a record Task.from_dict parses without raising
WellFormed(data) == {"command", "target_time", "task_id"} \subseteq DOMAIN data

\* sorted(d.items(), key=lambda x: x[1].completion_time or datetime.min,
\* reverse=True): stable, latest completion first, datetime.min below every
\* completion time. The keys are taken once; an entry goes to the place given
\* by the number of entries that come before it: those with a later key, and
\* those with an equal key that come first in d
SortedDesc(d) ==
    LET n == Len(d)
        dated == SubSeq([i \in 1..n |-> d[i].completion_time # None], 1, n)
        stamp == SubSeq([i \in 1..n |-> IF dated[i] THEN Val(d[i].completion_time) ELSE 0],
                        1, n)
        before(j, i) ==
            IF dated[j] /\ dated[i]
              THEN stamp[j] > stamp[i] \/ (stamp[j] = stamp[i] /\ j < i)
              ELSE IF dated[j] = dated[i] THEN j < i ELSE dated[j]
        place == SubSeq([i \in 1..n |-> 1 + Cardinality({j \in 1..n : before(j, i)})], 1, n)
    IN  [p \in 1..n |-> d[CHOOSE i \in 1..n : place[i] = p]]

\* a cap that keeps the first 100 entries of the dictionary as they stand
PruneUnsorted(d) ==
    IF Len(d) > MaxCompleted THEN SubSeq(d, 1, MaxCompleted) ELSE d

\* if len(d) > 100: d = dict(sorted_tasks[:100])
Prune(d) ==
    IF Len(d) > MaxCompleted THEN SubSeq(SortedDesc(d), 1, MaxCompleted) ELSE d

\* seq[:n] of Python, n an integer of either sign
Slice(seq, n) ==
    IF n >= 0 THEN SubSeq(seq, 1, IF n < Len(seq) THEN n ELSE Len(seq))
    ELSE SubSeq(seq, 1, IF Len(seq) + n > 0 THEN Len(seq) + n ELSE 0)

\* the records of a parsed file that a load loop gets through: a record that
\* does not parse raises, which ends the loop
Parsed(file) ==
    LET bad == {i \in DOMAIN file : ~WellFormed(file[i])}
    IN  IF bad = {} THEN file
        ELSE SubSeq(file, 1, (CHOOSE i \in bad : \A j \in bad : i <= j) - 1)

\* the dictionary after d[task.task_id] = task for each task of a list in
\* turn: a key stays where it first came, with the value that came last
Assigned(items) ==
    LET first == {i \in DOMAIN items :
                    \A j \in DOMAIN items : items[j].task_id = items[i].task_id => i <= j}
        place == [i \in first |-> Cardinality({j \in first : j <= i})]
        last(i) == CHOOSE k \in DOMAIN items :
                     /\ items[k].task_id = items[i].task_id
                     /\ \A j \in DOMAIN items : items[j].task_id = items[i].task_id => j <= k
    IN  [p \in 1..Cardinality(first) |-> items[last(CHOOSE i \in first : place[i] = p)]]

\* a load that keeps a task exactly when its target_time is at or after the
\* clock reading t
LoadTasksFrom(file, t) ==
    LET values == Parsed(file)
        loaded == [i \in DOMAIN values |-> from_dict(values[i])]
    IN  Assigned(SelectSeq(loaded, LAMBDA task : task.target_time >= t))

\* TaskServer._load_tasks at clock reading t: what the loop has put into
\* self.tasks when it ends, with or without an exception
LoadTasks(file, t) ==
    LET values == Parsed(file)
        loaded == [i \in DOMAIN values |-> from_dict(values[i])]
    IN  Assigned(SelectSeq(loaded, LAMBDA task : task.target_time > t))

\* the ids of the records _load_tasks parses at clock reading t and does not
\* put into self.tasks
ExpiredIds(file, t) ==
    LET values == Parsed(file)
    IN  {from_dict(values[i]).task_id : i \in DOMAIN values} \ Keys(LoadTasks(file, t))

\* TaskServer._load_completed_tasks: the cap is applied after the loop, so
\* only when no record raised
LoadCompleted(file) ==
    LET values == Parsed(file)
        loaded == Assigned([i \in DOMAIN values |-> from_dict(values[i])])
    IN  IF Len(values) = Len(file) THEN Prune(loaded) ELSE loaded

\* ------------------------------------------------------------------ state
VARIABLES
    clock,                 \* the system clock, in milliseconds
    alive,                 \* a daemon process exists
    running,               \* self.running
    lock,                  \* self.lock: "free", or "main" while the main thread holds it
    tasks,                 \* self.tasks
    completed_tasks,       \* self.completed_tasks
    task_threads,          \* self.task_threads: pairs <<task_id, thread>>
    tasks_file,            \* tasks.json, parsed
    completed_tasks_file,  \* completed_tasks.json, parsed
    log_files,             \* the artifacts under the temporary directory
    sched,                 \* the scheduler thread
    threads,               \* the executor threads, in creation order
    main,                  \* the main thread: accept loop and request handlers
    stop,                  \* the signal handler on top of the main thread: stop()
    response,              \* what the last connection was answered
    issued,                \* history: ids schedule returned in this process lifetime
    started,               \* history: how often a command was started, by task id
    cancelled,             \* history: ids a cancel request succeeded for
    counts,                \* history: schedules, signals and failures so far
    last,                  \* history: the id the latest request scheduled, if it did
    dropped,               \* history: ids the latest load passed over as expired
    conn,                  \* the client of send_message_to_server and its connection
    dequeued               \* history: the tasks the scans took out, and when

store == <<tasks, completed_tasks, task_threads>>
files == <<tasks_file, completed_tasks_file, log_files>>
history == <<issued, started, cancelled, counts, last, dropped>>
vars == <<clock, alive, running, lock, store, files, sched, threads, main, stop, response,
          history, conn, dequeued>>

\* the scheduler thread before its first iteration
SchedStart == [pc |-> "top", now |-> 0, tasks_to_run |-> <<>>, tasks_data |-> <<>>, wake |-> 0]

\* how often the command of task_id was started
Starts(task_id) == IF task_id \in DOMAIN started THEN started[task_id] ELSE 0

\* the main thread in accept()
MainAccept == [pc |-> "accept", msg |-> None, task |-> None, data |-> <<>>]

\* a client that has made no call
NoCalls == [pc |-> "idle", data |-> None, sent |-> <<>>, received |-> <<>>, returned |-> <<>>]

\* TaskServer.__init__ and start() of a process started at clock reading t
\* with the two files as given
Boot(t, tf, cf) ==
    /\ clock = t
    /\ alive = TRUE
    /\ running = TRUE
    /\ lock = "free"
    /\ tasks = LoadTasks(tf, t)
    /\ completed_tasks = LoadCompleted(cf)
    /\ task_threads = {}
    /\ tasks_file = tf
    /\ completed_tasks_file = cf
    /\ log_files = {}
    /\ sched = SchedStart
    /\ threads = <<>>
    /\ main = MainAccept
    /\ stop = "none"
    /\ response = None
    /\ issued = {}
    /\ started = [id \in {} |-> 0]
    /\ cancelled = {}
    /\ counts = [schedules |-> 0, signals |-> 0, failures |-> 0]
    /\ last = None
    /\ dropped = ExpiredIds(tf, t)
    /\ conn = NoCalls
    /\ dequeued = <<>>

\* a first start with no persisted state
Init == Boot(0, <<>>, <<>>)

\* ------------------------------------------------------------------ clock
\* a second passes
Tick ==
    /\ clock \div MsPerSecond < MaxSeconds
    /\ clock' = clock + MsPerSecond
    /\ UNCHANGED <<alive, running, lock, store, files, sched, threads, main, stop, response,
                   history, conn, dequeued>>

\* ------------------------------------------------------- scheduler thread
\* scheduler_loop: the thread reaches the top of the loop (at its start, or
\* when time.sleep(1) returns), tests self.running and reads datetime.now()
S_Top ==
    /\ alive /\ sched.pc = "top" /\ clock >= sched.wake
    /\ sched' = IF running
                  THEN [sched EXCEPT !.pc = "scan", !.now = clock, !.wake = 0]
                  ELSE [sched EXCEPT !.pc = "exit", !.wake = 0]
    /\ UNCHANGED <<clock, alive, running, lock, store, files, threads, main, stop, response,
                   history, conn, dequeued>>

\* a scan that also takes what falls due during the coming sleep
DueTasksAhead(d, t) ==
    SelectSeq(d, LAMBDA task : task.target_time <= t + TickSeconds * MsPerSecond)

\* the tasks of d that are due at clock reading t, in dictionary order
DueTasks(d, t) == SelectSeq(d, LAMBDA task : task.target_time <= t)

\* a scan that leaves a task in place whose target_time is its clock reading
KeptTasksFrom(d, t) == SelectSeq(d, LAMBDA task : ~(task.target_time < t))

\* the tasks of d the scan at clock reading t leaves in place
KeptTasks(d, t) == SelectSeq(d, LAMBDA task : ~(task.target_time <= t))

\* the scheduler thread in time.sleep(1) that begins at clock reading t
Asleep(s, t) ==
    [s EXCEPT !.pc = "top", !.now = 0, !.tasks_to_run = <<>>,
              !.wake = t + TickSeconds * MsPerSecond]

\* scheduler_loop: the scan under the lock; with nothing due the iteration
\* goes straight to time.sleep(1)
S_Scan ==
    /\ alive /\ sched.pc = "scan" /\ lock = "free"
    /\ LET due == DueTasks(tasks, sched.now)
       IN  /\ tasks' = KeptTasks(tasks, sched.now)
           /\ sched' = IF due # <<>>
                         THEN [sched EXCEPT !.pc = "save", !.now = 0, !.tasks_to_run = due]
                         ELSE Asleep(sched, clock)
    /\ UNCHANGED <<clock, alive, running, lock, completed_tasks, task_threads, files,
                   threads, main, stop, response, history, conn>>

\* _save_tasks called by the scheduler, without the lock: building tasks_data
S_Serialize ==
    /\ alive /\ sched.pc = "save"
    /\ sched' = [sched EXCEPT !.pc = "write", !.tasks_data = Serialize(tasks)]
    /\ UNCHANGED <<clock, alive, running, lock, store, files, threads, main, stop, response,
                   history, conn, dequeued>>

\* _save_tasks called by the scheduler: json.dump into tasks.json
S_Write ==
    /\ alive /\ sched.pc = "write"
    /\ tasks_file' = sched.tasks_data
    /\ sched' = [sched EXCEPT !.pc = "execute", !.tasks_data = <<>>]
    /\ UNCHANGED <<clock, alive, running, lock, store, completed_tasks_file, log_files,
                   threads, main, stop, response, history, conn, dequeued>>

\* a new executor thread for a task, with args=(task.command, task.task_id);
\* target_time is history: the thread does not have it
NewThread(task) ==
    [task_id |-> task.task_id, command |-> task.command, pc |-> "running",
     returncode |-> None, target_time |-> task.target_time]

\* self.task_threads[task_id] = thread
Register(tt, task_id, thread) == {p \in tt : p[1] # task_id} \cup {<<task_id, thread>>}

\* an execute_task that runs the commands one after the other: the next task
\* is started when no command is running
S_ExecuteJoins ==
    /\ alive /\ sched.pc = "execute" /\ sched.tasks_to_run # <<>> /\ lock = "free"
    /\ \A i \in DOMAIN threads : threads[i].pc # "running"
    /\ LET task == Head(sched.tasks_to_run)
       IN  /\ threads' = Append(threads, NewThread(task))
           /\ task_threads' = Register(task_threads, task.task_id, Len(threads) + 1)
           /\ started' = (task.task_id :> Starts(task.task_id) + 1) @@ started
    /\ sched' = [sched EXCEPT !.tasks_to_run = Tail(sched.tasks_to_run)]
    /\ UNCHANGED <<clock, alive, running, lock, tasks, completed_tasks, files, main, stop,
                   response, issued, cancelled, dropped, counts, last, conn, dequeued>>

\* execute_task for the next task of tasks_to_run: the thread is registered
\* under the lock and started, and _run_command starts the command
S_Execute ==
    /\ alive /\ sched.pc = "execute" /\ sched.tasks_to_run # <<>> /\ lock = "free"
    /\ LET task == Head(sched.tasks_to_run)
       IN  /\ threads' = Append(threads, NewThread(task))
           /\ task_threads' = Register(task_threads, task.task_id, Len(threads) + 1)
           /\ started' = (task.task_id :> Starts(task.task_id) + 1) @@ started
    /\ sched' = [sched EXCEPT !.tasks_to_run = Tail(sched.tasks_to_run)]
    /\ UNCHANGED <<clock, alive, running, lock, tasks, completed_tasks, files, main, stop,
                   response, issued, cancelled, dropped, counts, last, conn, dequeued>>

\* execute_task for the next task of tasks_to_run when the system has no
\* thread left: the thread is registered under the lock, thread.start() raises
\* RuntimeError, and nothing in execute_task or scheduler_loop catches it: the
\* scheduler thread ends, and with it the rest of tasks_to_run
S_StartFails ==
    /\ alive /\ sched.pc = "execute" /\ sched.tasks_to_run # <<>> /\ lock = "free"
    /\ counts.failures < MaxFailures
    /\ counts' = [counts EXCEPT !.failures = @ + 1]
    /\ task_threads' = Register(task_threads, Head(sched.tasks_to_run).task_id, 0)
    /\ sched' = [sched EXCEPT !.pc = "raised", !.tasks_to_run = <<>>]
    /\ UNCHANGED <<clock, alive, running, lock, tasks, completed_tasks, files, threads,
                   main, stop, response, issued, started, cancelled, dropped, last, conn, dequeued>>

\* the for loop over tasks_to_run is over: time.sleep(1) begins
S_Sleep ==
    /\ alive /\ sched.pc = "execute" /\ sched.tasks_to_run = <<>>
    /\ sched' = Asleep(sched, clock)
    /\ UNCHANGED <<clock, alive, running, lock, store, files, threads, main, stop, response,
                   history, conn, dequeued>>

\* ------------------------------------------------------- executor threads
\* the three artifacts of one task id, replacing earlier ones of that id
WriteLogs(lf, task_id, command, rc) ==
    {f \in lf : f.task_id # task_id}
      \cup {[task_id |-> task_id, stdout |-> <<"stdout", command>>,
             stderr |-> <<"stderr", command>>, exit |-> Str(rc)]}

\* del self.task_threads[task_id], if it is there
Unregister(tt, task_id) == {p \in tt : p[1] # task_id}

\* _run_command: the command ends with a return code; the artifacts are written
X_Finish(i) ==
    /\ alive /\ threads[i].pc = "running"
    /\ \E rc \in ExitCodes :
         /\ threads' = [threads EXCEPT ![i].pc = "record", ![i].returncode = Some(rc)]
         /\ log_files' = WriteLogs(log_files, threads[i].task_id, threads[i].command, rc)
    /\ UNCHANGED <<clock, alive, running, lock, store, tasks_file, completed_tasks_file,
                   sched, main, stop, response, history, conn, dequeued>>

\* _run_command: running the command or writing an artifact raises; the
\* except clause logs it and the finally block, under the lock, ends the thread
X_Raise(i) ==
    /\ alive /\ threads[i].pc = "running" /\ lock = "free"
    /\ task_threads' = Unregister(task_threads, threads[i].task_id)
    /\ threads' = [threads EXCEPT ![i].pc = "raised"]
    /\ UNCHANGED <<clock, alive, running, lock, tasks, completed_tasks, files,
                   sched, main, stop, response, history, conn, dequeued>>

\* a history record whose completion_time is the approximated target time
CompletedTaskBackdated(command, task_id, rc, t) ==
    TaskInit(command, t - 1 * MsPerSecond, task_id, TRUE, Some(rc),
             Some(t - 1 * MsPerSecond), t)

\* a history record that leaves the exit code out
CompletedTaskBare(command, task_id, rc, t) ==
    TaskInit(command, t - 1 * MsPerSecond, task_id, TRUE, None, Some(t), t)

\* the Task _run_command builds for the history at clock reading t
CompletedTask(command, task_id, rc, t) ==
    TaskInit(command, t - 1 * MsPerSecond, task_id, TRUE, Some(rc), Some(t), t)

\* self.completed_tasks[task_id] = completed_task, then the cap
RecordCompletion(d, task) == Prune(DictSet(d, task))

\* a _run_command that saves both snapshots after the history update
X_RecordSavesAll(i) ==
    /\ alive /\ threads[i].pc = "record" /\ lock = "free"
    /\ completed_tasks' =
         RecordCompletion(completed_tasks,
                          CompletedTask(threads[i].command, threads[i].task_id,
                                        Val(threads[i].returncode), clock))
    /\ completed_tasks_file' = Serialize(completed_tasks')
    /\ tasks_file' = Serialize(tasks)
    /\ task_threads' = Unregister(task_threads, threads[i].task_id)
    /\ threads' = [threads EXCEPT ![i].pc = "done", ![i].returncode = None]
    /\ UNCHANGED <<clock, alive, running, lock, tasks, log_files,
                   sched, main, stop, response, history, conn, dequeued>>

\* _run_command: the history update and _save_completed_tasks under the lock,
\* then the finally block, which takes the lock again; the thread ends
X_Record(i) ==
    /\ alive /\ threads[i].pc = "record" /\ lock = "free"
    /\ completed_tasks' =
         RecordCompletion(completed_tasks,
                          CompletedTask(threads[i].command, threads[i].task_id,
                                        Val(threads[i].returncode), clock))
    /\ completed_tasks_file' = Serialize(completed_tasks')
    /\ task_threads' = Unregister(task_threads, threads[i].task_id)
    /\ threads' = [threads EXCEPT ![i].pc = "done", ![i].returncode = None]
    /\ UNCHANGED <<clock, alive, running, lock, tasks, tasks_file, log_files,
                   sched, main, stop, response, history, conn, dequeued>>

\* ------------------------------------------------------------ main thread
\* a request object; a field the request does not carry is None
Message(action, command, delay_seconds, task_id, limit) ==
    [action |-> action, command |-> command, delay_seconds |-> delay_seconds,
     task_id |-> task_id, limit |-> limit]

\* the ids a cancel request is tried with: every id the daemon knows of, and
\* the one a task created now would get
CancelIds ==
    Keys(tasks) \cup Keys(completed_tasks) \cup Keys(sched.tasks_to_run)
      \cup {threads[i].task_id : i \in DOMAIN threads} \cup {Str(clock)}

\* schedule requests: the command absent, null, empty or a shell command; the
\* delay absent, null, a string or a number of seconds
ScheduleMessages ==
    {Message(Some("schedule"), c, d, None, None) :
       c \in {Some(x) : x \in Commands} \cup {None, Some("")},
       d \in {Some(x) : x \in Delays} \cup {None, Text("soon")}}

CancelMessages ==
    {Message(Some("cancel"), None, None, i, None) : i \in {Some(x) : x \in CancelIds} \cup {None}}

\* limits a history request carries
Limits == {0 - 1, 0, 1}

\* history requests: the limit absent, an integer or a string
HistoryMessages ==
    {Message(Some("history"), None, None, None, l) :
       l \in {Some(x) : x \in Limits} \cup {None, Text("all")}}

\* request bodies that are no JSON object: bytes json.loads rejects, and a
\* JSON array, which has no get()
BadBodies == {"{", "[1]"}

ListMessages == {Message(Some("list"), None, None, None, None)}

UnknownMessages == {Message(a, None, None, None, None) : a \in {None, Some("status")}}

\* a dispatch that serves a request without an action as a list request
HandlerOrList(msg) ==
    CASE msg.action = Some("schedule") -> "schedule"
      [] msg.action = Some("list") \/ msg.action = None -> "list"
      [] msg.action = Some("cancel") -> "cancel"
      [] msg.action = Some("history") -> "history"
      [] OTHER -> "unknown"

\* process_message: the handler message.get('action') selects
Handler(msg) ==
    CASE msg.action = Some("schedule") -> "schedule"
      [] msg.action = Some("list") -> "list"
      [] msg.action = Some("cancel") -> "cancel"
      [] msg.action = Some("history") -> "history"
      [] OTHER -> "unknown"

\* the request objects a connection can carry
Requests ==
    ScheduleMessages \cup CancelMessages \cup ListMessages \cup HistoryMessages
      \cup UnknownMessages

\* an error response; a message is its text and the values formatted into it
ErrorResponse(message) == [status |-> "error", message |-> message]

\* the main thread runs its own code: no signal handler is on top of it
MainRuns == alive /\ stop \in {"none", "done"}

\* the accept loop takes a connection and handle_client reads the request
Accepting == MainRuns /\ running /\ main.pc = "accept"

\* the main thread with the response ready to be sent
Replying == [pc |-> "reply", msg |-> None, task |-> None, data |-> <<>>]

\* the main thread in the except clause of handle_client: there is no response
Excepting == [pc |-> "except", msg |-> None, task |-> None, data |-> <<>>]

\* handle_client with a body that is no JSON object: json.loads raises, or
\* message.get does; the except clause prints the exception
M_Raise(body) ==
    /\ Accepting
    /\ response' = None
    /\ main' = Excepting
    /\ last' = None
    /\ UNCHANGED <<clock, alive, running, lock, store, files, sched, threads, stop, issued,
                   started, cancelled, dropped, counts, dequeued>>

\* not command or delay_seconds is None, as handle_schedule tests them
\* without a test of the empty command
MissingUnlessEmpty(msg) == msg.command = None \/ msg.delay_seconds = None

\* not command or delay_seconds is None: an absent field reads as None, and
\* None and the empty string are false
Missing(msg) ==
    \/ msg.command = None \/ Val(msg.command) = ""
    \/ msg.delay_seconds = None

\* a schedule request up to the lock: handle_schedule checks the fields,
\* reads the clock and builds the Task; timedelta(seconds=...) raises
\* TypeError on a string, which the handler's except turns into a response
M_Schedule(msg) ==
    /\ Accepting /\ Handler(msg) = "schedule"
    /\ IF Missing(msg) \/ IsText(msg.delay_seconds)
         THEN /\ response' = IF Missing(msg)
                                THEN ErrorResponse(<<"Missing command or delay">>)
                                ELSE ErrorResponse(<<"unsupported type for timedelta seconds component: str">>)
              /\ main' = Replying
              /\ counts' = counts
              /\ last' = None
         ELSE /\ counts.schedules < MaxSchedules
              /\ counts' = [counts EXCEPT !.schedules = @ + 1]
              /\ response' = None
              /\ last' = last
              /\ main' = [pc |-> "lock_wait", msg |-> msg, data |-> <<>>,
                          task |-> Some(TaskInit(Val(msg.command),
                                                 clock + Val(msg.delay_seconds) * MsPerSecond,
                                                 None, FALSE, None, None, clock))]
    /\ UNCHANGED <<clock, alive, running, lock, store, files, sched, threads, stop,
                   issued, started, cancelled, dropped, dequeued>>

\* handle_schedule under the lock: the insertion, and tasks_data of _save_tasks
M_Insert ==
    /\ MainRuns /\ main.pc = "lock_wait" /\ lock = "free"
    /\ lock' = "main"
    /\ tasks' = DictSet(tasks, Val(main.task))
    /\ main' = [main EXCEPT !.pc = "locked", !.data = Serialize(tasks')]
    /\ UNCHANGED <<clock, alive, running, completed_tasks, task_threads, files, sched,
                   threads, stop, response, history, conn, dequeued>>

\* handle_cancel: the task_id check, then under the lock the removal and
\* tasks_data of _save_tasks
M_Cancel(msg) ==
    /\ Accepting /\ Handler(msg) = "cancel"
    /\ IF msg.task_id = None
         THEN /\ response' = ErrorResponse(<<"Missing task_id">>)
              /\ main' = Replying
              /\ last' = None
              /\ UNCHANGED <<lock, tasks, dequeued>>
         ELSE /\ lock = "free"
              /\ lock' = "main"
              /\ response' = None
              /\ last' = last
              /\ IF Val(msg.task_id) \in Keys(tasks)
                   THEN /\ tasks' = DictDel(tasks, Val(msg.task_id))
                        /\ main' = [pc |-> "locked", msg |-> msg,
                                    task |-> Some(DictGet(tasks, Val(msg.task_id))),
                                    data |-> Serialize(tasks')]
                   ELSE /\ tasks' = tasks
                        /\ main' = [pc |-> "locked", msg |-> msg, task |-> None,
                                    data |-> <<>>]
    /\ UNCHANGED <<clock, alive, running, completed_tasks, task_threads, files, sched,
                   threads, stop, issued, started, cancelled, dropped, counts, dequeued>>

\* handle_list under the lock: tasks_data
M_List(msg) ==
    /\ Accepting /\ Handler(msg) = "list" /\ lock = "free"
    /\ lock' = "main"
    /\ response' = None
    /\ main' = [pc |-> "locked", msg |-> msg, task |-> None, data |-> Serialize(tasks)]
    /\ UNCHANGED <<clock, alive, running, store, files, sched, threads, stop, history, dequeued>>

\* message.get('limit', 10)
Limit(msg) == IF msg.limit = None THEN DefaultLimit ELSE Val(msg.limit)

\* handle_history under the lock: tasks_data
HistoryData(d, limit) == Serialize(Slice(SortedDesc(d), limit))

\* handle_history under the lock; sorted_tasks[:limit] raises TypeError on a
\* string, the with statement releases the lock and the exception reaches the
\* except clause of handle_client
M_History(msg) ==
    /\ Accepting /\ Handler(msg) = "history" /\ lock = "free"
    /\ response' = None
    /\ IF IsText(msg.limit)
         THEN /\ lock' = lock
              /\ main' = Excepting
         ELSE /\ lock' = "main"
              /\ main' = [pc |-> "locked", msg |-> msg, task |-> None,
                          data |-> HistoryData(completed_tasks, Limit(msg))]
    /\ last' = None
    /\ UNCHANGED <<clock, alive, running, store, files, sched, threads, stop, issued,
                   started, cancelled, dropped, counts, dequeued>>

\* process_message: any other action
M_Unknown(msg) ==
    /\ Accepting /\ Handler(msg) = "unknown"
    /\ response' = ErrorResponse(<<"Unknown action", msg.action>>)
    /\ main' = Replying
    /\ last' = None
    /\ UNCHANGED <<clock, alive, running, lock, store, files, sched, threads, stop, issued,
                   started, cancelled, dropped, counts, dequeued>>

\* a response whose target_time is the time of the call
ScheduleResponseNow(task) ==
    [status |-> "success", message |-> <<"Task scheduled">>, task_id |-> task.task_id,
     target_time |-> isoformat(task.task_id[2])]

\* the response of handle_schedule
ScheduleResponse(task) ==
    [status |-> "success", message |-> <<"Task scheduled">>, task_id |-> task.task_id,
     target_time |-> isoformat(task.target_time)]

\* the response of handle_list and handle_history
TasksResponse(data) == [status |-> "success", tasks |-> data]

\* the response of a handle_cancel that found the task
CancelResponse(task_id) == [status |-> "success", message |-> <<"cancelled", task_id>>]

\* the handler writes the snapshot (schedule, cancel), leaves the lock and
\* returns its response
M_Reply ==
    /\ MainRuns /\ main.pc = "locked"
    /\ lock' = "free"
    /\ main' = Replying
    /\ LET action == Val(main.msg.action)
       IN  CASE action = "schedule" ->
                  /\ tasks_file' = main.data
                  /\ response' = ScheduleResponse(Val(main.task))
                  /\ issued' = issued \cup {Val(main.task).task_id}
                  /\ cancelled' = cancelled
                  /\ last' = Some(Val(main.task).task_id)
             [] action = "cancel" ->
                  IF main.task # None
                    THEN /\ tasks_file' = main.data
                         /\ response' = CancelResponse(Val(main.msg.task_id))
                         /\ cancelled' = cancelled \cup {Val(main.msg.task_id)}
                         /\ issued' = issued
                         /\ last' = None
                    ELSE /\ response' = ErrorResponse(<<"not found", Val(main.msg.task_id)>>)
                         /\ last' = None
                         /\ UNCHANGED <<tasks_file, issued, cancelled, dequeued>>
             [] action \in {"list", "history"} ->
                  /\ response' = TasksResponse(main.data)
                  /\ last' = None
                  /\ UNCHANGED <<tasks_file, issued, cancelled, dequeued>>
    /\ UNCHANGED <<clock, alive, running, store, completed_tasks_file, log_files, sched,
                   threads, stop, started, counts, dropped, conn, dequeued>>

\* a handle_client that sends the response and reads on for the next request
\* of the connection
M_KeepOpen ==
    /\ MainRuns /\ main.pc \in {"reply", "except"}
    /\ main' = [MainAccept EXCEPT !.pc = "recv"]
    /\ response' = None
    /\ UNCHANGED <<clock, alive, running, lock, store, files, sched, threads, stop, history, conn, dequeued>>

\* handle_client: the response is sent, if there is one, and the connection
\* closed
M_Close ==
    /\ MainRuns /\ main.pc \in {"reply", "except"}
    /\ main' = MainAccept
    /\ response' = None
    /\ UNCHANGED <<clock, alive, running, lock, store, files, sched, threads, stop, history, conn, dequeued>>

\* ---------------------------------------------------------------- shutdown
\* SIGINT or SIGTERM: handle_signal runs on the main thread, wherever it is.
\* stop() sets self.running = False and takes the lock for the list of
\* threads; the bounded joins and the removal of the socket file follow and
\* the handler returns. The lock is not reentrant: with the main thread
\* holding it, stop() waits
M_Signal ==
    /\ alive /\ stop = "none"
    /\ counts.signals < MaxSignals
    /\ counts' = [counts EXCEPT !.signals = @ + 1]
    /\ running' = FALSE
    /\ stop' = IF lock = "free" THEN "done" ELSE "wait"
    /\ UNCHANGED <<clock, alive, lock, store, files, sched, threads, main, response,
                   issued, started, cancelled, dropped, last, conn, dequeued>>

\* a thread of a process that exits
Killed(pc) == IF pc \in {"done", "raised", "exit"} THEN pc ELSE "killed"

\* the accept loop sees self.running false and returns; main() calls stop()
\* again and the process exits, which ends its daemon threads where they are
M_Exit ==
    /\ MainRuns /\ main.pc = "accept" /\ ~running /\ lock = "free"
    /\ alive' = FALSE
    /\ threads' = [i \in DOMAIN threads |->
                      [threads[i] EXCEPT !.pc = Killed(@), !.returncode = None]]
    /\ sched' = [sched EXCEPT !.pc = Killed(@), !.tasks_to_run = <<>>, !.tasks_data = <<>>]
    /\ UNCHANGED <<clock, running, lock, store, files, main, stop, response, history, conn, dequeued>>

\* how long after the exit of the old process the new one reads the clock in
\* _load_tasks: a moment, or the time to the next full second
StartupDelays(t) == {StartupMs, MsPerSecond - (t % MsPerSecond)}

\* a new daemon process: TaskServer.__init__ loads the two files, start()
\* starts the scheduler thread. The clock has moved on since the old process
\* exited
Restart ==
    /\ ~alive
    /\ \E d \in StartupDelays(clock) : clock' = clock + d
    /\ alive' = TRUE
    /\ running' = TRUE
    /\ tasks' = LoadTasks(tasks_file, clock')
    /\ completed_tasks' = LoadCompleted(completed_tasks_file)
    /\ task_threads' = {}
    /\ sched' = SchedStart
    /\ main' = MainAccept
    /\ stop' = "none"
    /\ response' = None
    /\ issued' = {}
    /\ last' = None
    /\ dropped' = ExpiredIds(tasks_file, clock')
    /\ UNCHANGED <<lock, files, threads, started, cancelled, counts, conn, dequeued>>

\* ------------------------------------------------------------ specification
Next ==
    \/ Tick
    \/ S_Top
    \/ S_Scan /\ dequeued' = dequeued
    \/ S_Serialize
    \/ S_Write
    \/ S_Execute
    \/ S_Sleep
    \/ \E i \in DOMAIN threads : X_Finish(i)
    \/ \E i \in DOMAIN threads : X_Raise(i)
    \/ \E i \in DOMAIN threads : X_Record(i)
    \/ Accepting /\ conn' = conn /\ \E msg \in Requests : M_Schedule(msg)
    \/ M_Insert
    \/ Accepting /\ conn' = conn /\ \E msg \in Requests : M_Cancel(msg)
    \/ Accepting /\ conn' = conn /\ \E msg \in Requests : M_List(msg)
    \/ Accepting /\ conn' = conn /\ \E msg \in Requests : M_Unknown(msg)
    \/ Accepting /\ conn' = conn /\ \E msg \in Requests : M_History(msg)
    \/ conn' = conn /\ \E body \in BadBodies : M_Raise(body)
    \/ M_Reply
    \/ M_Close
    \/ M_Signal
    \/ M_Exit
    \/ Restart

Spec == Init /\ [][Next]_vars

\* progress of the daemon's own threads: each runs when it can, and a thread
\* blocked on self.lock gets it at one of its releases (the main thread goes
\* through a reply, a close, an accept and a receive before it asks again).
\* Requests, signals and restarts are up to the environment
Fairness ==
    /\ WF_vars(Tick)
    /\ WF_vars(S_Top) /\ WF_vars(S_Serialize) /\ WF_vars(S_Write) /\ WF_vars(S_Sleep)
    /\ SF_vars(S_Scan /\ dequeued' = dequeued) /\ SF_vars(S_Execute)
    /\ \A i \in 1..MaxSchedules :
         /\ WF_vars(i \in DOMAIN threads /\ X_Finish(i))
         /\ SF_vars(i \in DOMAIN threads /\ X_Record(i))
    /\ WF_vars(M_Insert) /\ WF_vars(M_Reply) /\ WF_vars(M_Close)

\* one process, from its start to its exit
NextLife ==
    \/ Tick
    \/ S_Top
    \/ S_Scan /\ dequeued' = dequeued
    \/ S_Serialize
    \/ S_Write
    \/ S_Execute
    \/ S_Sleep
    \/ \E i \in DOMAIN threads : X_Finish(i)
    \/ \E i \in DOMAIN threads : X_Raise(i)
    \/ \E i \in DOMAIN threads : X_Record(i)
    \/ Accepting /\ conn' = conn /\ \E msg \in Requests : M_Schedule(msg)
    \/ M_Insert
    \/ Accepting /\ conn' = conn /\ \E msg \in Requests : M_Cancel(msg)
    \/ Accepting /\ conn' = conn /\ \E msg \in Requests : M_List(msg)
    \/ Accepting /\ conn' = conn /\ \E msg \in Requests : M_Unknown(msg)
    \/ Accepting /\ conn' = conn /\ \E msg \in Requests : M_History(msg)
    \/ conn' = conn /\ \E body \in BadBodies : M_Raise(body)
    \/ M_Reply
    \/ M_Close
    \/ M_Signal
    \/ M_Exit

\* the requests of the progress properties: a schedule request with each
\* delay and one that is refused, every cancel request, a list request, a
\* history request that is answered and one that raises, an unknown action
FairRequests ==
    {Message(Some("schedule"), Some("a"), d, None, None) :
       d \in {Some(x) : x \in Delays} \cup {None}}
      \cup CancelMessages \cup ListMessages
      \cup {Message(Some("history"), None, None, None, l) : l \in {None, Text("all")}}
      \cup {Message(Some("status"), None, None, None, None)}

\* one process, from its start to its exit, with these requests
NextFair ==
    \/ Tick
    \/ S_Top
    \/ S_Scan /\ dequeued' = dequeued
    \/ S_Serialize
    \/ S_Write
    \/ S_Execute
    \/ S_Sleep
    \/ \E i \in DOMAIN threads : X_Finish(i)
    \/ \E i \in DOMAIN threads : X_Raise(i)
    \/ \E i \in DOMAIN threads : X_Record(i)
    \/ Accepting /\ conn' = conn /\ \E msg \in FairRequests : M_Schedule(msg)
    \/ M_Insert
    \/ Accepting /\ conn' = conn /\ \E msg \in FairRequests : M_Cancel(msg)
    \/ Accepting /\ conn' = conn /\ \E msg \in FairRequests : M_List(msg)
    \/ Accepting /\ conn' = conn /\ \E msg \in FairRequests : M_Unknown(msg)
    \/ Accepting /\ conn' = conn /\ \E msg \in FairRequests : M_History(msg)
    \/ conn' = conn /\ \E body \in BadBodies : M_Raise(body)
    \/ M_Reply
    \/ M_Close
    \/ M_Signal
    \/ M_Exit

\* one process with threads that make progress and commands that end
FairSpec == Init /\ [][NextFair]_vars /\ Fairness

\* the accept loop wakes from accept() each second (settimeout(1.0)) and tests
\* self.running; the second stop() of main() gets the lock at one of its
\* releases
StopFairness == SF_vars(M_Exit)

\* one process whose threads make progress and whose accept loop ends when
\* self.running is false
StopSpec == Init /\ [][NextFair]_vars /\ Fairness /\ StopFairness

\* ------------------------------------------- a daemon on a failing system
\* a snapshot file after a write that failed part-way: open(..., 'w') has
\* truncated it and the text json.dump got out does not parse
Unparsable == <<[truncated |-> TRUE]>>

\* a save whose exception reaches the caller
FailedSaveRaises(file) == {[file |-> f, raised |-> TRUE] : f \in {file, Unparsable}}

\* _save_tasks and _save_completed_tasks when open() or json.dump raises: the
\* file is as it was or truncated, and the except clause prints the error, so
\* the caller sees no exception
FailedSave(file) == {[file |-> f, raised |-> FALSE] : f \in {file, Unparsable}}

\* the scheduler's _save_tasks fails; an exception out of it would end the
\* scheduler thread
S_WriteFails ==
    /\ alive /\ sched.pc = "write"
    /\ counts.failures < MaxFailures
    /\ counts' = [counts EXCEPT !.failures = @ + 1]
    /\ \E out \in FailedSave(tasks_file) :
         /\ tasks_file' = out.file
         /\ sched' = IF out.raised
                       THEN [sched EXCEPT !.pc = "raised", !.tasks_data = <<>>,
                                          !.tasks_to_run = <<>>]
                       ELSE [sched EXCEPT !.pc = "execute", !.tasks_data = <<>>]
    /\ UNCHANGED <<clock, alive, running, lock, store, completed_tasks_file, log_files,
                   threads, main, stop, response, issued, started, cancelled, dropped, last, conn, dequeued>>

\* the _save_tasks of handle_schedule or handle_cancel fails; the handler
\* leaves the lock and returns. An exception out of _save_tasks would be
\* turned into an error response by handle_schedule's except clause, and
\* would leave handle_cancel for the except clause of handle_client
M_ReplySaveFails ==
    /\ MainRuns /\ main.pc = "locked"
    /\ main.msg.action = Some("schedule") \/ (main.msg.action = Some("cancel") /\ main.task # None)
    /\ counts.failures < MaxFailures
    /\ counts' = [counts EXCEPT !.failures = @ + 1]
    /\ lock' = "free"
    /\ \E out \in FailedSave(tasks_file) :
         /\ tasks_file' = out.file
         /\ IF main.msg.action = Some("schedule")
              THEN /\ main' = Replying
                   /\ response' = IF out.raised
                                     THEN ErrorResponse(<<"No space left on device">>)
                                     ELSE ScheduleResponse(Val(main.task))
                   /\ issued' = IF out.raised THEN issued
                                 ELSE issued \cup {Val(main.task).task_id}
                   /\ cancelled' = cancelled
                   /\ last' = IF out.raised THEN None ELSE Some(Val(main.task).task_id)
              ELSE /\ main' = IF out.raised THEN Excepting ELSE Replying
                   /\ response' = IF out.raised THEN None
                                   ELSE CancelResponse(Val(main.msg.task_id))
                   /\ cancelled' = cancelled \cup {Val(main.msg.task_id)}
                   /\ issued' = issued
                   /\ last' = None
    /\ UNCHANGED <<clock, alive, running, store, completed_tasks_file, log_files, sched,
                   threads, stop, started, dropped, conn, dequeued>>

\* the _save_completed_tasks of _run_command fails; an exception out of it
\* would go to the except clause of _run_command. The finally block ends the
\* thread
X_RecordSaveFails(i) ==
    /\ alive /\ threads[i].pc = "record" /\ lock = "free"
    /\ counts.failures < MaxFailures
    /\ counts' = [counts EXCEPT !.failures = @ + 1]
    /\ completed_tasks' =
         RecordCompletion(completed_tasks,
                          CompletedTask(threads[i].command, threads[i].task_id,
                                        Val(threads[i].returncode), clock))
    /\ \E out \in FailedSave(completed_tasks_file) :
         /\ completed_tasks_file' = out.file
         /\ threads' = [threads EXCEPT ![i].pc = IF out.raised THEN "raised" ELSE "done",
                                       ![i].returncode = None]
    /\ task_threads' = Unregister(task_threads, threads[i].task_id)
    /\ UNCHANGED <<clock, alive, running, lock, tasks, tasks_file, log_files,
                   sched, main, stop, response, issued, started, cancelled, dropped, last, conn, dequeued>>

\* one process, from its start to its exit, on a system where a thread may
\* fail to start and a write may fail
NextFaults ==
    \/ NextLife
    \/ S_StartFails
    \/ S_WriteFails
    \/ M_ReplySaveFails
    \/ \E i \in DOMAIN threads : X_RecordSaveFails(i)

SpecFaults == Init /\ [][NextFaults]_vars

\* ---------------------------------------------- a daemon with slow peers
\* the main thread in recv() of handle_client
MainRecv == [pc |-> "recv", msg |-> None, task |-> None, data |-> <<>>]

\* accept() returns the connection of a peer that has not closed its write
\* side: start() calls handle_client on the main thread, and its recv loop
\* waits for the end of the stream (the timeout of the listening socket is
\* not that of the connection)
M_RecvBlocks ==
    /\ Accepting
    /\ main' = MainRecv
    /\ UNCHANGED <<clock, alive, running, lock, store, files, sched, threads, stop, response,
                   history, conn, dequeued>>

\* the peer closes its write side at last, having sent nothing (there is no
\* request and no response) or half a request (json.loads raises); the
\* connection is closed in the finally block
M_RecvEof ==
    /\ MainRuns /\ main.pc = "recv"
    /\ main' \in {MainAccept, Excepting}
    /\ UNCHANGED <<clock, alive, running, lock, store, files, sched, threads, stop, response,
                   history, conn, dequeued>>

\* client.sendall raises (the peer is gone): the except clause prints the
\* exception; the connection is closed in the finally block
M_SendFails ==
    /\ MainRuns /\ main.pc = "reply"
    /\ main' = Excepting
    /\ response' = None
    /\ UNCHANGED <<clock, alive, running, lock, store, files, sched, threads, stop, history, conn, dequeued>>

NextPeers ==
    \/ Next
    \/ M_RecvBlocks
    \/ M_RecvEof
    \/ M_SendFails

SpecPeers == Init /\ [][NextPeers]_vars

\* ------------------------------------- a daemon and a sequential client
\* process_message called with msg: the first step of the handler it selects
process_message(msg) ==
    \/ M_Schedule(msg) \/ M_List(msg) \/ M_Cancel(msg) \/ M_History(msg) \/ M_Unknown(msg)

\* json.dumps(o).encode('utf-8') and json.loads(data.decode('utf-8'))
json_dumps(o) == <<"json", o>>
json_loads(s) == s[2]

\* the messages the client sends: an unknown action and none, a list request,
\* schedule requests, and a history request whose handler raises
ClientMessages ==
    UnknownMessages \cup ListMessages
      \cup {Message(Some("schedule"), Some("a"), Some(d), None, None) : d \in Delays}
      \cup {Message(Some("history"), None, None, None, Text("all"))}

\* send_message_to_server up to its recv loop: the socket file is there, the
\* client connects, sends the message and shuts down its write side. The
\* call before it has returned
C_Send(msg) ==
    /\ conn.pc = "idle" /\ Len(conn.sent) < MaxCalls
    /\ alive /\ stop = "none"
    /\ conn' = [conn EXCEPT !.pc = "sent", !.data = Some(json_dumps(msg)),
                            !.sent = Append(@, msg)]
    /\ UNCHANGED <<clock, alive, running, lock, store, files, sched, threads, main, stop,
                   response, history, dequeued>>

\* accept() returns the connection of the client; handle_client reads to the
\* end of the stream, parses the data and calls process_message
M_Receive ==
    /\ Accepting /\ conn.pc = "sent"
    /\ LET message == json_loads(Val(conn.data))
       IN  /\ process_message(message)
           /\ conn' = [conn EXCEPT !.pc = "recv", !.data = None,
                                   !.received = Append(@, message)]

\* a handle_client that closes the connection without sending
M_CloseUnsent ==
    /\ MainRuns /\ main.pc \in {"reply", "except"} /\ conn.pc = "recv"
    /\ main' = MainAccept
    /\ response' = None
    /\ conn' = [conn EXCEPT !.pc = "idle", !.returned = Append(@, None)]
    /\ UNCHANGED <<clock, alive, running, lock, store, files, sched, threads, stop, history, dequeued>>

\* handle_client sends the response, if there is one, and closes the
\* connection; the recv loop of the client ends and send_message_to_server
\* returns json.loads(data) if data else None
M_CloseReturns ==
    /\ MainRuns /\ main.pc \in {"reply", "except"} /\ conn.pc = "recv"
    /\ main' = MainAccept
    /\ response' = None
    /\ conn' = [conn EXCEPT !.pc = "idle",
                            !.returned = Append(@, IF response = None THEN None
                                                   ELSE Some(json_loads(json_dumps(response))))]
    /\ UNCHANGED <<clock, alive, running, lock, store, files, sched, threads, stop, history, dequeued>>

\* a daemon that runs on, and one client whose calls follow one another
NextClient ==
    \/ Tick
    \/ S_Top
    \/ S_Scan /\ dequeued' = dequeued
    \/ S_Serialize
    \/ S_Write
    \/ S_Execute
    \/ S_Sleep
    \/ \E i \in DOMAIN threads : X_Finish(i)
    \/ \E i \in DOMAIN threads : X_Raise(i)
    \/ \E i \in DOMAIN threads : X_Record(i)
    \/ \E msg \in ClientMessages : C_Send(msg)
    \/ M_Receive
    \/ M_Insert
    \/ M_Reply
    \/ M_CloseReturns

SpecClient == Init /\ [][NextClient]_vars

\* -------------------------------------------- the client's time strings
\* a string is the sequence of its characters
Whitespace == {" ", "\t"}
IsDigit(c) == c \in {"0", "1", "2", "3", "4", "5", "6", "7", "8", "9"}

\* int() of one decimal digit
DigitValue(c) ==
    CASE c = "0" -> 0 [] c = "1" -> 1 [] c = "2" -> 2 [] c = "3" -> 3 [] c = "4" -> 4
      [] c = "5" -> 5 [] c = "6" -> 6 [] c = "7" -> 7 [] c = "8" -> 8 [] c = "9" -> 9

\* int() of a string of decimal digits
RECURSIVE int(_)
int(ds) == IF ds = <<>> THEN 0
           ELSE 10 * int(SubSeq(ds, 1, Len(ds) - 1)) + DigitValue(ds[Len(ds)])

\* str.lower(), on the capitals the time strings have
lower(str) ==
    [i \in DOMAIN str |->
       CASE str[i] = "E" -> "e" [] str[i] = "H" -> "h" [] str[i] = "I" -> "i"
         [] str[i] = "M" -> "m" [] str[i] = "N" -> "n" [] str[i] = "T" -> "t"
         [] str[i] = "U" -> "u" [] OTHER -> str[i]]

\* str.strip()
strip(str) ==
    LET inner == {i \in DOMAIN str : str[i] \notin Whitespace}
    IN  IF inner = {} THEN <<>>
        ELSE SubSeq(str, CHOOSE i \in inner : \A j \in inner : i <= j,
                         CHOOSE i \in inner : \A j \in inner : i >= j)

\* the alternatives of the unit group, in the order of the pattern:
\* second|seconds|minute|minutes|hour|hours
Units ==
    << <<"s", "e", "c", "o", "n", "d">>, <<"s", "e", "c", "o", "n", "d", "s">>,
       <<"m", "i", "n", "u", "t", "e">>, <<"m", "i", "n", "u", "t", "e", "s">>,
       <<"h", "o", "u", "r">>, <<"h", "o", "u", "r", "s">> >>

\* seconds per unit: unit.startswith('second'), 'minute', 'hour'
UnitSeconds(j) == IF j <= 2 THEN 1 ELSE IF j <= 4 THEN 60 ELSE 3600

\* str begins with word
StartsWith(str, word) == Len(word) <= Len(str) /\ SubSeq(str, 1, Len(word)) = word

\* the length of the longest run of characters of str from position i on
\* that belong to class: what \d+ and \s+ take
Run(str, i, class) ==
    LET stops == {j \in i..Len(str) : str[j] \notin class}
    IN  IF stops = {} THEN Len(str) + 1 - i
        ELSE (CHOOSE j \in stops : \A k \in stops : j <= k) - i

\* parse_time_string: the seconds, or None for a ValueError. re.match anchors
\* the pattern at the start of the string only
parse_time_string(time_str) ==
    LET str == strip(lower(time_str))
        digits == Run(str, 1, {str[j] : j \in {k \in DOMAIN str : IsDigit(str[k])}})
        spaces == Run(str, digits + 1, Whitespace)
        rest == SubSeq(str, digits + spaces + 1, Len(str))
        matches == {j \in DOMAIN Units : StartsWith(rest, Units[j])}
    IN  IF digits = 0 \/ spaces = 0 \/ matches = {} THEN None
        ELSE Some(int(SubSeq(str, 1, digits))
                    * UnitSeconds(CHOOSE j \in matches : \A k \in matches : j <= k))

\* the time strings the client is called with: whitespace or none, an amount
\* or none, whitespace or none, a unit in some case or something else, and
\* something after it or nothing
TimeStrings ==
    {lead \o amount \o gap \o unit \o trail :
       lead \in {<<>>, <<" ">>},
       amount \in {<<>>, <<"0">>, <<"2">>, <<"5">>, <<"1", "2">>},
       gap \in {<<>>, <<" ">>, <<" ", "\t">>},
       unit \in {Units[j] : j \in DOMAIN Units}
                \cup {<<"M", "I", "N", "U", "T", "E">>, <<"H", "o", "u", "r", "s">>,
                      <<"m">>, <<"h">>, <<"d", "a", "y", "s">>,
                      <<"i", "n", "v", "a", "l", "i", "d">>, <<>>},
       trail \in {<<>>, <<" ">>, <<"3", "0", "m">>, <<" ", "a", "g", "o">>}}

\* the client is called with a time string
C_Args(time_str) ==
    /\ conn.pc = "idle" /\ conn.data = None
    /\ conn' = [conn EXCEPT !.pc = "args", !.data = Some(time_str)]
    /\ UNCHANGED <<clock, alive, running, lock, store, files, sched, threads, main, stop,
                   response, history, dequeued>>

\* the client calls parse_time_string: it returns the seconds or raises
C_Parse ==
    /\ conn.pc = "args"
    /\ conn' = [conn EXCEPT !.pc = "parsed",
                            !.returned = <<parse_time_string(Val(conn.data))>>]
    /\ UNCHANGED <<clock, alive, running, lock, store, files, sched, threads, main, stop,
                   response, history, dequeued>>

NextParse ==
    \/ \E time_str \in TimeStrings : C_Args(time_str)
    \/ C_Parse

SpecParse == Init /\ [][NextParse]_vars

\* ------------------------------------------------- a daemon with a history
\* the j-th of them: scheduled j milliseconds before this process started, due
\* a second after its start
PendingTask(j) ==
    TaskInit(IF j % 2 = 1 THEN "a" ELSE "b", MsPerSecond, Str(0 - j), FALSE, None, None, 0)

PendingFile == [j \in 1..MaxPending |-> to_dict(PendingTask(j))]

\* the k-th of n completed tasks a previous process left in completed_tasks.json
HistoryTask(k, n, order) ==
    TaskInit("h", 0 - k * MsPerSecond, Str(0 - k * MsPerSecond), TRUE, Some(0),
             Some(CASE order = "old first" -> k - n - 1
                    [] order = "new first" -> 0 - k
                    [] order = "same" -> 0
                    [] order = "ahead" -> MsPerSecond),
             0)

\* completed_tasks.json with n records, and a record that does not parse if torn
HistoryFile(n, order, torn) ==
    [k \in 1..n |-> to_dict(HistoryTask(k, n, order))]
      \o (IF torn THEN <<[task_id |-> Str(0)]>> ELSE <<>>)

HistoryFiles ==
    {HistoryFile(n, order, torn) :
       n \in {MaxCompleted - 1, MaxCompleted, MaxCompleted + Overfill},
       order \in {"old first", "new first", "same"},
       torn \in BOOLEAN}

\* a start with persisted state
InitHistory == \E cf \in HistoryFiles : Boot(0, PendingFile, cf)

NextHistory ==
    \/ Tick
    \/ S_Top
    \/ S_Scan /\ dequeued' = dequeued
    \/ S_Serialize
    \/ S_Write
    \/ S_Execute
    \/ S_Sleep
    \/ \E i \in DOMAIN threads : X_Finish(i)
    \/ \E i \in DOMAIN threads : X_Raise(i)
    \/ \E i \in DOMAIN threads : X_Record(i)
    \/ Accepting /\ conn' = conn /\ \E msg \in Requests : M_History(msg)
    \/ Accepting /\ conn' = conn /\ \E msg \in Requests : M_List(msg)
    \/ conn' = conn /\ \E body \in BadBodies : M_Raise(body)
    \/ M_Reply
    \/ M_Close

SpecHistory == InitHistory /\ [][NextHistory]_vars

\* a start with a full history whose records carry the wall-clock time at
\* which the pending tasks of this process complete: datetime.now() is the
\* naive local time, which repeats after the clock is set back
InitTies == Boot(0, PendingFile, HistoryFile(MaxCompleted, "ahead", FALSE))

SpecTies == InitTies /\ [][NextHistory]_vars

\* ------------------------------------- a daemon whose dequeues are noted
\* the tasks a scan takes out of the active set, with the moment of the scan
Dequeue ==
    dequeued' = dequeued \o [j \in 1..Len(sched'.tasks_to_run) |->
                               [task |-> sched'.tasks_to_run[j], at |-> clock]]

\* one process lifetime with schedule requests: the scheduler runs on, so the
\* i-th execution thread is the one of the i-th task taken out
NextDequeue ==
    \/ Tick
    \/ S_Top
    \/ S_Scan /\ Dequeue
    \/ S_Serialize
    \/ S_Write
    \/ S_Execute
    \/ S_Sleep
    \/ \E i \in DOMAIN threads : X_Finish(i)
    \/ \E i \in DOMAIN threads : X_Raise(i)
    \/ \E i \in DOMAIN threads : X_Record(i)
    \/ Accepting /\ conn' = conn /\ \E msg \in Requests : M_Schedule(msg)
    \/ M_Insert
    \/ M_Reply
    \/ M_Close

SpecDequeue == Init /\ [][NextDequeue]_vars

\* ------------------------------------------------------------------ steps
\* the step is a scan of the scheduler
ScanStep == sched.pc = "scan" /\ sched'.pc # "scan" /\ alive'

\* the step starts a command
ExecuteStep == Len(threads') = Len(threads) + 1

\* the step is the return of handle_schedule with a success response
ScheduleReplyStep ==
    /\ main.pc = "locked" /\ main'.pc = "reply"
    /\ main.msg.action = Some("schedule")

\* ----------------------------------------------------------------- properties
\* C1: the command of any given task id is started at most once, over every
\* interleaving of requests, scheduler iterations, executions and restarts.
C1_AtMostOnce == \A id \in DOMAIN started : started[id] <= 1

\* C2: no task id is in the active and in the completed dictionary at once.
C2_ActiveCompletedDisjoint == Keys(tasks) \cap Keys(completed_tasks) = {}

\* C3: after a cancel request for an id returned success, no command of that
\* id is started and the id does not enter the completed dictionary.
C3_CancelledNeverRuns ==
    [][\A id \in cancelled :
          /\ Starts(id)' = Starts(id)
          /\ id \in Keys(completed_tasks') => id \in Keys(completed_tasks)]_vars

\* C4: the id a successful schedule request returns differs from every id
\* returned earlier in the same process lifetime.
C4_FreshId == [][ScheduleReplyStep => Val(main.task).task_id \notin issued]_vars

\* an execution that has not ended
InFlight(i) == \E j \in DOMAIN threads : j = i /\ threads[j].pc \notin {"done", "raised"}

\* an execution that has ended
Ended(i) == \E j \in DOMAIN threads : j = i /\ threads[j].pc \in {"done", "raised"}

\* the history holds a completed record for the task of thread i
Recorded(i) ==
    /\ threads[i].task_id \in Keys(completed_tasks)
    /\ LET task == DictGet(completed_tasks, threads[i].task_id)
       IN  task.completed /\ task.exit_code # None /\ task.completion_time # None

Due(task_id) ==
    \E i \in DOMAIN tasks : tasks[i].task_id = task_id /\ tasks[i].target_time <= clock

\* the scheduler sleeps past the end of the modelled time
SleepsPastHorizon == sched.pc = "top" /\ sched.wake > MaxSeconds * MsPerSecond

\* C6: a scan removes every task whose target_time is at or before the clock
\* reading of the scan; and while the scheduler loop keeps running (no
\* shutdown signal), every task that is due is eventually out of the active
\* dictionary.
C6_ScanRemovesDue ==
    /\ [][ScanStep => \A i \in DOMAIN tasks' : tasks'[i].target_time > sched.now]_vars
    /\ \A s \in 0..MaxSeconds :
         Due(Str(s * MsPerSecond))
           ~> (Str(s * MsPerSecond) \notin Keys(tasks) \/ counts.signals > 0
                 \/ SleepsPastHorizon)

C6_Witness ==
    /\ sched.pc = "save" /\ Len(sched.tasks_to_run) = 1 /\ tasks # <<>>
    /\ sched.tasks_to_run[1].target_time = clock

\* C7: a command starts at a clock reading that is not before its task's
\* target_time, and a scan leaves every task with a later target_time than
\* its clock reading in the active dictionary.
C7_NoEarlyStart ==
    [][/\ ExecuteStep => threads'[Len(threads')].target_time <= clock
       /\ ScanStep => \A i \in DOMAIN tasks :
                         tasks[i].target_time > sched.now
                           => \E j \in DOMAIN tasks' : tasks'[j] = tasks[i]]_vars

C7_Witness ==
    \E i \in DOMAIN threads :
       /\ threads[i].pc = "running"
       /\ threads[i].target_time = clock
       /\ threads[i].task_id = Str(clock - 1 * MsPerSecond)
       /\ tasks # <<>>

\* the entries of a dictionary
Entries(d) == {d[k] : k \in DOMAIN d}

\* thread i records its completion in this step
RecordStep(i) ==
    /\ i \in DOMAIN threads /\ threads[i].pc = "record"
    /\ i \in DOMAIN threads' /\ threads'[i].pc = "done"

C9_PruneKeepsLatest ==
    [][\A i \in DOMAIN threads :
         RecordStep(i) /\ Cardinality(Keys(completed_tasks) \cup {threads[i].task_id}) > MaxCompleted
           => LET id == threads[i].task_id
                  old == {e \in Entries(completed_tasks) : e.task_id # id}
                  kept == Entries(completed_tasks')
              IN  /\ Len(completed_tasks') = MaxCompleted
                  /\ Cardinality(Keys(completed_tasks')) = MaxCompleted
                  /\ \A k \in kept :
                       k \in old \/ (k.task_id = id /\ k.completion_time = Some(clock))
                  /\ \A d \in old \ kept : \A k \in kept :
                       Val(d.completion_time) <= Val(k.completion_time)
                  /\ id \notin Keys(completed_tasks')
                       => \A k \in kept : clock <= Val(k.completion_time)]_vars

C9_Witness ==
    /\ Len(completed_tasks) = MaxCompleted
    /\ \E i \in DOMAIN threads :
         /\ threads[i].pc = "done"
         /\ threads[i].task_id \in Keys(completed_tasks)
    /\ \E k \in 1..MaxCompleted : Str(0 - k * MsPerSecond) \notin Keys(completed_tasks)

\* the step is handle_schedule reading the clock and building its Task
ScheduleCallStep == main.pc = "accept" /\ main'.pc = "lock_wait"

\* the step is the insertion of handle_schedule
InsertStep == main.pc = "lock_wait" /\ main'.pc = "locked"

\* the step is handle_list taking its snapshot
ListStep ==
    main.pc = "accept" /\ main'.pc = "locked" /\ main'.msg.action = Some("list")

\* the step is handle_cancel looking for task_id
CancelStep(task_id) ==
    /\ main.pc = "accept" /\ main'.pc = "locked"
    /\ main'.msg.action = Some("cancel") /\ main'.msg.task_id = Some(task_id)

\* what a successful schedule request returns and inserts
ScheduleEffect ==
    /\ ScheduleCallStep
         => LET task == Val(main'.task)
            IN  /\ task.command = Val(main'.msg.command)
                /\ task.target_time = clock + Val(main'.msg.delay_seconds) * MsPerSecond
                /\ task.completed = FALSE
    /\ InsertStep
         => LET task == Val(main.task)
            IN  /\ main'.task = main.task
                /\ task.task_id \in Keys(tasks')
                /\ DictGet(tasks', task.task_id) = task
                /\ \A e \in Entries(tasks) : e.task_id # task.task_id => e \in Entries(tasks')
                /\ Len(tasks') <= Len(tasks) + 1
    /\ ScheduleReplyStep
         => LET task == Val(main.task)
            IN  /\ response' # None
                /\ response'.status = "success"
                /\ response'.task_id = task.task_id
                /\ fromisoformat(response'.target_time) = task.target_time
                /\ task.task_id \in Keys(tasks')
                /\ DictGet(tasks', task.task_id) = task

\* C10 as stated: a successful schedule returns the clock reading at the call
\* plus the delay as target_time, inserts the task under the returned id, and
\* the list request that follows it contains that id.
C10_ScheduledThenListed ==
    [][/\ ScheduleEffect
       /\ ListStep /\ last # None => Val(last) \in Keys(main'.data)]_vars

\* C10, amended: a successful schedule returns the clock reading at the call
\* plus the delay as target_time and inserts the task under the returned id;
\* an id leaves the active set only by a scheduler scan whose clock reading is
\* at or after the task's target_time, by a cancel request for it, or by a
\* restart of the daemon, and a list response holds every id of the active set.
C10_ScheduledUntilDue ==
    [][/\ ScheduleEffect
       /\ \A id \in Keys(tasks) :
            id \notin Keys(tasks')
              => \/ ScanStep /\ DictGet(tasks, id).target_time <= sched.now
                 \/ CancelStep(id)
                 \/ ~alive
       /\ ListStep => Keys(main'.data) = Keys(tasks)]_vars

C10_Witness ==
    /\ main.pc = "locked" /\ main.msg.action = Some("list")
    /\ last # None /\ Val(last) \in Keys(main.data)
    /\ \E i \in DOMAIN tasks :
         tasks[i].task_id = Val(last) /\ tasks[i].target_time > tasks[i].task_id[2]

\* a schedule request that is not well formed: the command absent, null or
\* empty, or the delay absent, null or not a number
Malformed(msg) ==
    \/ msg.command = None \/ Val(msg.command) = ""
    \/ msg.delay_seconds = None \/ IsText(msg.delay_seconds)

\* C11: a schedule request whose command or delay_seconds is absent, null,
\* empty or not a number gets a response with status error and a message, and
\* applies nothing: the handler returns without the lock, the active set, the
\* completed set and the persisted active snapshot are as they were, and no
\* task built from such a request is ever inserted.
C11_MalformedScheduleRejected ==
    [][/\ \A msg \in ScheduleMessages :
            Malformed(msg) /\ M_Schedule(msg)
              => /\ main'.pc = "reply"
                 /\ response' # None
                 /\ response'.status = "error"
                 /\ "message" \in DOMAIN response'
                 /\ UNCHANGED <<tasks, completed_tasks, tasks_file, lock>>
       /\ InsertStep => ~Malformed(main.msg)]_vars

C11_Witness ==
    /\ main.pc = "reply" /\ response # None
    /\ response.status = "error"
    /\ response.message = <<"unsupported type for timedelta seconds component: str">>
    /\ tasks # <<>> /\ tasks_file # <<>>

\* the step is the return of handle_cancel
CancelReplyStep ==
    /\ main.pc = "locked" /\ main'.pc = "reply"
    /\ main.msg.action = Some("cancel")

\* C12 as stated: a cancel request succeeds exactly when its task_id is in the
\* active set when it is processed, and then removes that task and no other;
\* otherwise it answers error and changes nothing. Of the cancel requests for
\* one id at most one succeeds.
C12_CancelOnce ==
    [][/\ \A id \in CancelIds :
            CancelStep(id)
              => IF id \in Keys(tasks)
                   THEN /\ Keys(tasks') = Keys(tasks) \ {id}
                        /\ \A e \in Entries(tasks) : e.task_id # id => e \in Entries(tasks')
                        /\ main'.task # None
                        /\ id \notin cancelled
                   ELSE /\ main'.task = None
                        /\ UNCHANGED <<tasks, completed_tasks, files>>
       /\ CancelReplyStep
            => /\ response' # None
               /\ response'.status = (IF main.task # None THEN "success" ELSE "error")
               /\ main.task = None => UNCHANGED <<store, files>>]_vars

\* the step is handle_client closing the connection
CloseStep == main.pc \in {"reply", "except"} /\ main'.pc = "accept"

\* C13 as stated: whatever the body of a request, its connection is closed
\* only after one response object with status success or error, and a message
\* on error, was sent on it.
C13_EveryRequestAnswered ==
    [][CloseStep
         => /\ response # None
            /\ response.status \in {"success", "error"}
            /\ response.status = "error" => "message" \in DOMAIN response]_vars

\* C14 as stated: after a SIGINT or SIGTERM, in whatever state it arrives
\* (idle in accept, in a request that holds the lock, with commands running),
\* the daemon stops accepting and its shutdown ends: the process exits.
C14_ShutdownTerminates == (counts.signals > 0) ~> ~alive

\* the step is the start of a new daemon process
StartupStep == ~alive /\ alive'

\* C15 as stated: every task that is in the active set in memory when the
\* daemon shuts down, and whose target_time is still ahead of the clock when
\* the next process loads tasks.json, is in the active set after that startup,
\* whatever the interleaving of requests and scheduler iterations before the
\* shutdown.
C15_ActiveSurvivesRestart ==
    [][StartupStep
         => \A e \in Entries(tasks) : e.target_time > clock' => e \in Entries(tasks')]_vars

\* C16: at startup a record of tasks.json enters the active set exactly when
\* its target_time is strictly later than the clock at the load, and nothing
\* else enters it; a task the load passed over as expired is from then on
\* not in the active set, its command is not started and no record of it is
\* added to the completed set.
C16_ExpiredDropped ==
    [][/\ StartupStep
            => /\ \A i \in DOMAIN tasks_file :
                    from_dict(tasks_file[i]) \in Entries(tasks')
                      <=> fromisoformat(tasks_file[i].target_time) > clock'
               /\ \A e \in Entries(tasks') : to_dict(e) \in Entries(tasks_file)
               /\ \A i \in DOMAIN tasks_file :
                    ~(fromisoformat(tasks_file[i].target_time) > clock')
                      => tasks_file[i].task_id \in dropped'
       /\ \A id \in dropped' :
            /\ id \notin Keys(tasks')
            /\ (IF id \in DOMAIN started' THEN started'[id] ELSE 0) = Starts(id)
            /\ id \in Keys(completed_tasks') => id \in Keys(completed_tasks)]_vars

C16_Witness ==
    /\ alive /\ sched = SchedStart /\ clock > 0
    /\ \E i \in DOMAIN tasks_file :
         /\ fromisoformat(tasks_file[i].target_time) = clock
         /\ tasks_file[i].task_id \in dropped
         /\ tasks_file[i].task_id \notin Keys(tasks)

\* the scheduler thread is in its _save_tasks: between the end of its scan and
\* the end of its json.dump
SchedulerSaves == alive /\ sched.pc \in {"save", "write"}

\* the main thread is in the _save_tasks of handle_schedule or handle_cancel
MainSaves ==
    /\ alive /\ main.pc = "locked"
    /\ \/ main.msg.action = Some("schedule")
       \/ main.msg.action = Some("cancel") /\ main.task # None

\* C17 as stated: a snapshot of the active set is serialized and written
\* under the store lock: while a thread is in _save_tasks no other thread
\* changes the active set, and two threads are never in their writes of
\* tasks.json at once.
C17_SaveUnderLock ==
    [][/\ SchedulerSaves => tasks' = tasks
       /\ ~(SchedulerSaves /\ MainSaves)]_vars

\* C18: whenever the store lock is free, every task of the active set has
\* completed false, no exit_code and no completion_time, and every task of
\* the completed set has completed true, an exit_code and a completion_time.
C18_FlagsMatchCollection ==
    lock = "free"
      => /\ \A e \in Entries(tasks) :
              e.completed = FALSE /\ e.exit_code = None /\ e.completion_time = None
         /\ \A e \in Entries(completed_tasks) :
              e.completed = TRUE /\ e.exit_code # None /\ e.completion_time # None

C18_Witness ==
    /\ alive /\ lock = "free" /\ stop = "none" /\ counts.signals > 0
    /\ tasks # <<>>
    /\ \E e \in Entries(completed_tasks) : e.exit_code = Some(0)

\* handle_history holds the lock with its tasks_data built
HistoryBuilt == main.pc = "locked" /\ main.msg.action = Some("history")

\* C19 as stated: a history request answers with never more than limit tasks
\* (none for a negative limit) whatever the integer limit is, and for a limit
\* of 0 or more with exactly min(limit, size of the completed set) tasks: the
\* latest by completion_time, latest first. Without a limit, limit is 10. No
\* task of the answer is in the active set.
C19_HistoryLimit ==
    HistoryBuilt
      => LET limit == IF main.msg.limit = None THEN DefaultLimit ELSE Val(main.msg.limit)
             size == Len(completed_tasks)
             n == Len(main.data)
             when(data) == fromisoformat(data.completion_time)
         IN  /\ n <= (IF limit < 0 THEN 0 ELSE limit)
             /\ limit >= 0 => n = (IF limit < size THEN limit ELSE size)
             /\ \A k \in 1..n : main.data[k] \in {to_dict(e) : e \in Entries(completed_tasks)}
             /\ \A j, k \in 1..n : j < k => when(main.data[j]) >= when(main.data[k])
             /\ \A e \in Entries(completed_tasks) :
                  to_dict(e) \notin Entries(main.data)
                    => \A k \in 1..n : Val(e.completion_time) <= when(main.data[k])
             /\ Keys(main.data) \cap Keys(tasks) = {}

\* the step is handle_list or handle_history taking the lock and building
\* tasks_data, or returning its response
ReadStep ==
    \/ /\ main.pc = "accept" /\ main'.pc = "locked"
       /\ main'.msg.action \in {Some("list"), Some("history")}
    \/ /\ main.pc = "locked" /\ main'.pc = "reply"
       /\ main.msg.action \in {Some("list"), Some("history")}

\* the step is the return of handle_list
ListReplyStep ==
    main.pc = "locked" /\ main'.pc = "reply" /\ main.msg.action = Some("list")

\* C20: a list or history request changes neither collection and neither
\* snapshot file; what list returns is the active set at that moment, every
\* task as to_dict gives it, in insertion order; and the active set of a
\* running daemon changes only by the insertion of a schedule request, the
\* removal of a cancel request or a scan of the scheduler, so two list
\* requests with none of these between them return the same mapping.
C20_ReadOnlyRequests ==
    [][/\ ReadStep => UNCHANGED <<tasks, completed_tasks, tasks_file, completed_tasks_file>>
       /\ ListReplyStep
            => /\ response' # None
               /\ response'.status = "success"
               /\ Len(response'.tasks) = Len(tasks)
               /\ \A i \in DOMAIN tasks : response'.tasks[i] = to_dict(tasks[i])
       /\ alive /\ alive' /\ tasks' # tasks
            => InsertStep \/ ScanStep \/ \E id \in Keys(tasks) : CancelStep(id)]_vars

C20_Witness ==
    /\ main.pc = "reply" /\ response # None
    /\ response.status = "success"
    /\ "tasks" \in DOMAIN response
    /\ Len(response.tasks) = 2 /\ Len(tasks) = 2
    /\ completed_tasks = <<>> /\ tasks_file # <<>>

\* C21: a request whose action is none of schedule, list, history and cancel,
\* a request without an action included, gets a response with status error
\* and a message, and its handling takes no lock and leaves both collections
\* and both snapshot files as they were.
C21_UnknownActionRejected ==
    [][\A msg \in UnknownMessages :
         /\ msg.action \notin {Some("schedule"), Some("list"), Some("history"), Some("cancel")}
         /\ process_message(msg)
         => /\ main'.pc = "reply"
            /\ response' # None
            /\ response'.status = "error"
            /\ "message" \in DOMAIN response'
            /\ UNCHANGED <<tasks, completed_tasks, tasks_file, completed_tasks_file, lock>>]_vars

C21_Witness ==
    /\ main.pc = "reply" /\ response # None
    /\ response.status = "error"
    /\ response.message = <<"Unknown action", None>>
    /\ tasks # <<>> /\ completed_tasks # <<>>

\* C22 as stated: a failure in the scheduler loop or in the execution of one
\* task (a thread that cannot be started, an artifact or a snapshot that
\* cannot be written) is contained: the scheduler thread of a running daemon
\* stays in its loop.
C22_FailureContained == alive => sched.pc # "raised"

\* a snapshot file with a record that from_dict raises on
MalformedFile(file) == \E i \in DOMAIN file : ~WellFormed(file[i])

\* C23 as stated: when the load of a snapshot file fails, be it on a malformed
\* record after valid ones, the collection it was loaded into is empty, as if
\* there had been no file. (A file is rewritten whole, from memory, by the
\* first save after the load: while it holds a malformed record, the
\* collection is what the load left.)
C23_FailedLoadIsEmpty ==
    /\ MalformedFile(tasks_file) => tasks = <<>>
    /\ MalformedFile(completed_tasks_file) => completed_tasks = <<>>

\* the step is a save that fails: in the main thread, the scheduler thread or
\* executor thread i
MainSaveFails == counts'.failures > counts.failures /\ main.pc = "locked" /\ main' # main

SchedulerSaveFails ==
    counts'.failures > counts.failures /\ sched.pc = "write" /\ sched' # sched

ExecutorSaveFails(i) ==
    /\ counts'.failures > counts.failures
    /\ i \in DOMAIN threads /\ threads[i].pc = "record" /\ threads'[i].pc # "record"

\* C24: a snapshot write that fails is swallowed. The schedule or cancel
\* request whose save failed answers success as it would have, with its
\* insertion or removal in the active set; the scheduler whose save failed
\* goes on to execute what it dequeued; the executor whose save failed has
\* its record in the completed set and ends normally; and the daemon runs on.
C24_FailedWriteSwallowed ==
    [][/\ counts'.failures > counts.failures /\ sched.pc # "execute"
            => alive' /\ running' = running
       /\ MainSaveFails
            => /\ main'.pc = "reply"
               /\ lock' = "free"
               /\ response' # None
               /\ response'.status = "success"
               /\ tasks' = tasks
               /\ main.msg.action = Some("schedule")
                    => /\ Val(main.task) \in Entries(tasks')
                       /\ response'.task_id = Val(main.task).task_id
               /\ main.msg.action = Some("cancel")
                    => Val(main.msg.task_id) \notin Keys(tasks')
       /\ SchedulerSaveFails
            => /\ sched'.pc = "execute"
               /\ sched'.tasks_to_run = sched.tasks_to_run
               /\ tasks' = tasks
       /\ \A i \in DOMAIN threads :
            ExecutorSaveFails(i)
              => /\ threads'[i].pc = "done"
                 /\ \E e \in Entries(completed_tasks') :
                      /\ e.task_id = threads[i].task_id
                      /\ e.exit_code = threads[i].returncode
                      /\ e.completed]_vars

C24_Witness ==
    /\ alive /\ counts.failures > 0
    /\ main.pc = "reply" /\ response # None
    /\ response.status = "success" /\ "task_id" \in DOMAIN response
    /\ response.task_id \in Keys(tasks)
    /\ tasks_file = Unparsable

\* the tasks this step puts into the active set: handle_schedule inserts one,
\* _load_tasks at startup those of the snapshot it keeps
Inserted == Entries(tasks') \ Entries(tasks)

\* C25 as stated: a task that enters the active set, from a schedule request
\* or from the snapshot loaded at startup, has a target_time later than the
\* clock at that moment, whatever delay_seconds the request succeeded with.
C25_InsertedInFuture == [][\A task \in Inserted : task.target_time > clock']_vars

\* a connection is open whose peer has not finished sending
PeerSending == MainRuns /\ running /\ main.pc = "recv"

\* another connection is accepted and its request is handled
ServeAnother == \E msg \in Requests : process_message(msg)

\* C26 as stated: while the peer of one connection has not finished sending,
\* another connection can be accepted and served.
C26_PeerDoesNotBlockOthers == PeerSending => ENABLED ServeAnother

\* a command started by _run_command has not returned
CommandRuns(i) == i \in DOMAIN threads /\ threads[i].pc = "running"

\* C27: a due task runs on a thread of its own, and the scheduler does not
\* wait for its command. While a command runs, whoever holds the lock is not
\* its thread, and the command can end whatever the lock: what the scheduler
\* (the next task of the tick, the sleep, the next tick, the scan) and the
\* main thread (a request) wait for is never the command.
C27_CommandDoesNotBlock ==
    alive /\ (\E i \in DOMAIN threads : CommandRuns(i))
      => /\ \A i \in DOMAIN threads : CommandRuns(i) => ENABLED X_Finish(i)
         /\ sched.pc = "execute" /\ sched.tasks_to_run # <<>> /\ lock = "free"
              => ENABLED S_Execute
         /\ sched.pc = "execute" /\ sched.tasks_to_run = <<>> => ENABLED S_Sleep
         /\ sched.pc = "top" /\ clock >= sched.wake => ENABLED S_Top
         /\ sched.pc = "scan" /\ lock = "free" => ENABLED S_Scan
         /\ Accepting => ENABLED ServeAnother

\* two commands run at once, the second started while the first ran, and the
\* scheduler has gone on to sleep
C27_Witness ==
    /\ alive /\ sched.pc = "top" /\ sched.wake > clock
    /\ \E i, j \in DOMAIN threads : i < j /\ CommandRuns(i) /\ CommandRuns(j)

\* the artifacts of task_id in /tmp
Artifacts(task_id) == {f \in log_files : f.task_id = task_id}

\* C28 as stated: a task in the completed set has its three artifacts under
\* its task_id, and the exit-code artifact holds the exit code of its record.
C28_ArtifactsMatchRecord ==
    \A task \in Entries(completed_tasks) :
      /\ Artifacts(task.task_id) # {}
      /\ \A f \in Artifacts(task.task_id) : f.exit = Str(Val(task.exit_code))

\* a step of execute_task or of _run_command: a thread is created, or one
\* moves on in a process that lives
ExecutorStep == alive /\ alive' /\ threads' # threads

\* C29: the executor leaves the active set alone. Starting a task, running
\* its command and recording its completion change neither the active set in
\* memory nor its snapshot, whatever has been scheduled meanwhile.
C29_ExecutorKeepsActiveSet ==
    [][ExecutorStep => tasks' = tasks /\ tasks_file' = tasks_file]_vars

\* a completion is recorded and the thread has ended, with a task in the
\* active set and in its snapshot that was created after the executed one
C29_Witness ==
    \E i \in DOMAIN threads :
      /\ alive /\ threads[i].pc = "done"
      /\ threads[i].task_id \in Keys(completed_tasks)
      /\ tasks_file = Serialize(tasks)
      /\ \E task \in Entries(tasks) : task.task_id[2] > threads[i].task_id[2]

\* a step of the main thread of a process that lives
MainStep == alive /\ alive' /\ main' # main

\* C30: one connection, one request at most, one response at most, and the
\* close. Nothing is handled before the end of the stream; the request that
\* is being served stays the same while the connection is open; a response
\* is set once, with the handler done, and what follows it is the close (or
\* the failure of the send, and then the close); after the except clause
\* comes the close and no response; and the accept loop is reached again
\* only by a close.
C30_OneRequestThenClose ==
    [][MainStep
         => /\ main.pc = "recv" => main'.pc \in {"accept", "except"} /\ response' = None
            /\ main.msg # None /\ main'.msg # None => main'.msg = main.msg
            /\ response' # None /\ response' # response
                 => response = None /\ main'.pc = "reply" /\ main.pc \in {"accept", "locked"}
            /\ main.pc = "reply" => main' \in {MainAccept, Excepting} /\ response' = None
            /\ main.pc = "except" => main' = MainAccept /\ response' = None
            /\ main'.pc = "accept" => main.pc \in {"reply", "except", "recv"}]_vars

\* connections were answered and closed, one of them with a cancellation, and
\* on the next one the send of a schedule response has failed: the main
\* thread is in the except clause, about to close it
C30_Witness ==
    /\ alive /\ last # None /\ main = Excepting /\ response = None
    /\ cancelled # {}

\* the Task objects of the daemon: the active and the completed ones
Tasks == Entries(tasks) \cup Entries(completed_tasks)

\* C31: to_dict and then from_dict give the Task back, equal in its six
\* fields, for every active and every completed task of the daemon; the
\* record has the key exit_code exactly when the task has an exit code (0
\* included) and the key completion_time exactly when it has that time.
C31_RoundTrip ==
    \A task \in Tasks :
      /\ from_dict(to_dict(task)) = task
      /\ "exit_code" \in DOMAIN to_dict(task) <=> task.exit_code # None
      /\ "completion_time" \in DOMAIN to_dict(task) <=> task.completion_time # None

\* an active task without exit code and completion time, and a completed
\* task with exit code 0
C31_Witness ==
    /\ \E task \in Entries(tasks) :
         ~task.completed /\ task.exit_code = None /\ task.completion_time = None
    /\ \E task \in Entries(completed_tasks) :
         task.completed /\ task.exit_code = Some(0) /\ task.completion_time # None

\* r is what send_message_to_server returns when the response of the server
\* is the one to msg: the error that names the unknown action, the list, the
\* task scheduled with the delay of msg, or nothing when the handler raised
Answers(msg, r) ==
    CASE Handler(msg) = "unknown" ->
           r = Some(ErrorResponse(<<"Unknown action", msg.action>>))
      [] Handler(msg) = "list" ->
           r # None /\ Val(r).status = "success" /\ "tasks" \in DOMAIN Val(r)
      [] Handler(msg) = "schedule" ->
           /\ r # None /\ Val(r).status = "success"
           /\ fromisoformat(Val(r).target_time)
                = Val(r).task_id[2] + Val(msg.delay_seconds) * MsPerSecond
      [] OTHER -> r = None

\* C32: the calls of a client follow one another, each on a connection of
\* its own. The server receives the messages sent, each once and in the order
\* sent, at most the latest is still on its way, and what each call returns
\* is the response to its own message.
C32_SequentialCalls ==
    /\ Len(conn.received) <= Len(conn.sent)
    /\ conn.received = SubSeq(conn.sent, 1, Len(conn.received))
    /\ Len(conn.sent) - Len(conn.received) = IF conn.pc = "sent" THEN 1 ELSE 0
    /\ Len(conn.received) - Len(conn.returned) = IF conn.pc = "recv" THEN 1 ELSE 0
    /\ \A i \in DOMAIN conn.returned : Answers(conn.sent[i], conn.returned[i])

\* three calls have returned, with three different kinds of answers
C32_Witness ==
    /\ conn.pc = "idle" /\ Len(conn.returned) = MaxCalls
    /\ Handler(conn.sent[1]) = "schedule" /\ conn.sent[1].delay_seconds = Some(1)
    /\ Handler(conn.sent[2]) = "unknown"
    /\ Handler(conn.sent[3]) = "schedule" /\ conn.sent[3].delay_seconds = Some(0)
    /\ Val(conn.returned[1]).task_id # Val(conn.returned[3]).task_id

\* the ways to read str as an amount, whitespace and a unit, and nothing
\* else: <<k, w, j>> for k digits, w whitespace characters and unit j
Readings(str) ==
    {r \in (1..Len(str)) \X (1..Len(str)) \X DOMAIN Units :
       /\ r[1] + r[2] + Len(Units[r[3]]) = Len(str)
       /\ \A i \in 1..r[1] : IsDigit(str[i])
       /\ \A i \in (r[1] + 1)..(r[1] + r[2]) : str[i] \in Whitespace
       /\ SubSeq(str, r[1] + r[2] + 1, Len(str)) = Units[r[3]]}

\* C33 as stated: '<n> second(s)', '<n> minute(s)' and '<n> hour(s)' give n,
\* 60*n and 3600*n, whatever the case and the whitespace around and between,
\* and every other string raises ValueError.
C33_ParseTimeString ==
    conn.pc = "parsed"
      => LET str == strip(lower(Val(conn.data)))
             seconds == conn.returned[1]
         IN  IF Readings(str) = {} THEN seconds = None
             ELSE \A r \in Readings(str) :
                    seconds = Some(int(SubSeq(str, 1, r[1])) * UnitSeconds(r[3]))

\* the daemon is between operations: the lock is free, the main thread is in
\* no handler that takes it, the scheduler is not in its _save_tasks, and no
\* write has failed
Quiescent ==
    /\ alive /\ lock = "free"
    /\ main.pc \notin {"lock_wait", "locked"}
    /\ sched.pc \notin {"save", "write"}
    /\ counts.failures = 0

\* C34 as stated: between operations, tasks.json holds exactly the tasks of
\* the active set, however schedule and cancel requests and the dequeues of
\* the scheduler interleave.
C34_SnapshotIsActiveSet == Quiescent => Entries(tasks_file) = Entries(Serialize(tasks))

\* C35: the step in which an execution records its completion leaves the
\* record of the task that just completed in the completed set, also when
\* the set already held 100 entries and entries carry the same
\* completion_time.
C35_OwnRecordKept ==
    [][\A i \in DOMAIN threads :
         RecordStep(i) =>
           \E e \in Entries(completed_tasks') :
              /\ e.task_id = threads[i].task_id
              /\ e.completion_time = Some(clock)]_vars

\* the scheduler is past the _save_tasks of its iteration
Persisted == sched.pc = "execute" /\ sched.tasks_data = <<>>

\* C36: when the command of a task starts, the task is absent from the
\* in-memory active set and the scheduler has made the rewrite of tasks.json
\* of that iteration: the order within an iteration is remove, persist,
\* execute.
C36_RemovePersistExecute ==
    [][ExecuteStep =>
         /\ Persisted
         /\ threads'[Len(threads')].task_id \notin Keys(tasks)]_vars

\* C37: the execution registry holds a task id only together with an
\* execution thread of that task that has been registered and has not ended,
\* whether it ends by recording or by raising; with every started execution
\* ended the registry is empty.
C37_RegistryTracksExecutions ==
    alive =>
      /\ \A p \in task_threads :
            /\ p[2] \in DOMAIN threads
            /\ threads[p[2]].task_id = p[1]
            /\ InFlight(p[2])
      /\ (\A i \in DOMAIN threads : Ended(i)) => task_threads = {}

\* the record the history holds for the task of thread i
RecordOf(i) == DictGet(completed_tasks, threads[i].task_id)

\* C38: the completed record an execution stores carries the task_id and the
\* command of the active task the scheduler took out for it, and its
\* completion_time is not earlier than the moment that task was taken out.
C38_RecordMatchesDequeued ==
    [][\A i \in DOMAIN threads :
         RecordStep(i) =>
           /\ i \in DOMAIN dequeued
           /\ threads[i].task_id \in Keys(completed_tasks')
           /\ RecordOf(i)'.task_id = dequeued[i].task.task_id
           /\ RecordOf(i)'.command = dequeued[i].task.command
           /\ RecordOf(i)'.completion_time # None
           /\ Val(RecordOf(i)'.completion_time) >= dequeued[i].at]_vars

\* a task taken out at one clock reading is recorded at a later one
C38_Witness ==
    \E i \in DOMAIN threads :
       /\ threads[i].pc = "done" /\ i \in DOMAIN dequeued
       /\ threads[i].task_id \in Keys(completed_tasks)
       /\ RecordOf(i).command = dequeued[i].task.command
       /\ Val(RecordOf(i).completion_time) > dequeued[i].at

====
